---- MODULE Spec2Model ----
(***************************************************************************)
(* A model of the DataStore orchestrator of the retrieval plugin           *)
(* (src/datastore/datastore.py) and of the request contracts it is fed     *)
(* from (src/models/api.py).                                               *)
(*                                                                         *)
(* The orchestrator's four operations (upsert, query, chat, retrieve) are  *)
(* coroutines: every `await` of a collaborator is a point where the call   *)
(* is suspended, so each operation is cut into one action per await.  The  *)
(* collaborators themselves (the backend primitives delete, _upsert,       *)
(* _query and _chat, the chunker and the embedding provider) are abstract  *)
(* or imported in the source; they are modelled by their contract, with    *)
(* every outcome the contract allows (a value, a failure).                 *)
(***************************************************************************)
EXTENDS Bags, FiniteSets, Integers, Sequences, TLC

(***************************************************************************)
(* Bounds of the model.                                                    *)
(***************************************************************************)
MaxCalls == 2        \* upsert calls a caller makes, one after the other
MaxDocs == 2         \* documents in one upsert batch
MaxFaults == 1       \* awaited collaborator calls of upsert that fail in one behaviour
MaxQueries == 2      \* queries in one query or retrieve batch
MaxMsgs == 2         \* messages a caller hands to chat

(***************************************************************************)
(* Values.                                                                 *)
(***************************************************************************)
\* Python's None as the value of an Optional[str], also when the field is absent.
None == "None"

\* The other optional values (a list, a filter, a boolean, a result): Null is
\* None, Some(v) is the value v, Val gives it back.
Null == <<>>
Some(v) == <<v>>
Val(o) == o[1]

\* A call of the orchestrator to a collaborator or to one of its own
\* operations: the name of what is called and the argument it is given.
Call(fn, arg) == [fn |-> fn, arg |-> arg]

\* Document ids a caller supplies.
DocIds == {"d1", "d2"}

\* What the optional field Document.id can hold: an id, "" or None.
IdChoices == DocIds \cup {None, ""}

\* The text of the documents of the n-th upsert call: every call carries
\* content of its own, so the chunks of two calls can be told apart.
TextOf(n) == "t" \o ToString(n)

Document(id, text) == [id |-> id, text |-> text]

\* The id fields of the batches an upsert call can carry (the empty batch
\* included): up to MaxDocs documents in any order, no two with the same id
\* field.
BatchIds ==
    {b \in UNION {[1..k -> IdChoices] : k \in 0..MaxDocs} :
        \A i, j \in 1..Len(b) : i # j => b[i] # b[j]}

\* The batch of the n-th upsert call with these id fields.
Batch(ids, n) == [i \in 1..Len(ids) |-> Document(ids[i], TextOf(n))]

\* Truth value of an Optional[str] in `if document.id`: None and "" are false.
Truthy(id) == id # None /\ id # ""

(***************************************************************************)
(* upsert, lines 29-40: the delete calls handed to asyncio.gather.         *)
(***************************************************************************)
\* self.delete(filter=DocumentMetadataFilter(document_id=document.id),
\*             delete_all=False): ids keeps its default None, and the other
\* fields of the filter keep theirs (None), so the filter is its document_id.
DeleteArgs(document) ==
    [ids |-> Null, filter |-> Some([document_id |-> document.id]), delete_all |-> Some(FALSE)]

\* A mutant: the comprehension without its `if document.id`.
RECURSIVE DeleteCallsUnfiltered(_)
DeleteCallsUnfiltered(documents) ==
    IF documents = <<>> THEN <<>>
    ELSE <<DeleteArgs(Head(documents))>> \o DeleteCallsUnfiltered(Tail(documents))

\* [self.delete(...) for document in documents if document.id]
RECURSIVE DeleteCalls(_)
DeleteCalls(documents) ==
    IF documents = <<>> THEN <<>>
    ELSE LET rest == DeleteCalls(Tail(documents))
         IN  IF Truthy(Head(documents).id)
             THEN <<DeleteArgs(Head(documents))>> \o rest
             ELSE rest

\* A mutant: gather returns as soon as no delete is left that has not failed,
\* pending ones included.
GatherReturnsEarly(calls) ==
    \A i \in 1..Len(calls) : calls[i].status # "raised"

\* A mutant: gather with return_exceptions=True, which never raises.
GatherSwallows(calls) ==
    \A i \in 1..Len(calls) : calls[i].status # "pending"

\* await asyncio.gather(...) returns once every awaitable has returned; the
\* booleans it collects are dropped (the await is a statement).
GatherReturns(calls) ==
    \A i \in 1..Len(calls) : calls[i].status \in {"true", "false"}

\* await asyncio.gather(...) raises the first exception of an awaitable as soon
\* as there is one; the other awaitables are not cancelled and keep running.
GatherRaises(calls) ==
    \E i \in 1..Len(calls) : calls[i].status = "raised"

(***************************************************************************)
(* The collaborators, by their contract.                                   *)
(***************************************************************************)
\* DocumentMetadataFilter against a chunk: the filter of the model has the
\* one field document_id.
Matches(filter, chunk) == chunk.document_id = filter.document_id

\* The chunks a delete(ids, filter, delete_all) call selects.
Selected(args, chunk) ==
    \/ args.delete_all = Some(TRUE)
    \/ args.ids # Null /\ \E i \in 1..Len(Val(args.ids)) : Val(args.ids)[i] = chunk.id
    \/ args.filter # Null /\ Matches(Val(args.filter), chunk)

\* The store after a delete that succeeded: the selected chunks are gone.
Remove(bag, args) ==
    [chunk \in {x \in DOMAIN bag : ~Selected(args, x)} |-> bag[chunk]]

\* The fresh id the chunker generates for a document that has none (a uuid):
\* one that was never given before.
GenId(k) == "g" \o ToString(k)

\* How many of the documents before the i-th have no id of their own.
Unnamed(documents, i) == Cardinality({j \in 1..(i - 1) : ~Truthy(documents[j].id)})

\* The id the chunker gives the i-th document: the document's own, or a fresh
\* one when it has none; gen ids were generated before this call.
ChunkDocId(documents, gen, i) ==
    IF Truthy(documents[i].id) THEN documents[i].id
    ELSE GenId(gen + Unnamed(documents, i) + 1)

\* get_document_chunks(documents, chunk_token_size): a mapping from document
\* id to the list of its chunks.  A text of the model fits one chunk; of two
\* documents with one id the mapping keeps the later.
GetDocumentChunks(documents, gen) ==
    LET ids == {ChunkDocId(documents, gen, i) : i \in 1..Len(documents)}
        last(id) == CHOOSE i \in 1..Len(documents) :
                       /\ ChunkDocId(documents, gen, i) = id
                       /\ \A j \in 1..Len(documents) :
                            ChunkDocId(documents, gen, j) = id => j <= i
    IN  [id \in ids |->
            <<[id |-> id \o "_0", document_id |-> id, text |-> documents[last(id)].text]>>]

\* The elements of a list, as a bag.
RECURSIVE SeqBag(_)
SeqBag(seq) ==
    IF seq = <<>> THEN EmptyBag ELSE SetToBag({Head(seq)}) (+) SeqBag(Tail(seq))

\* The chunks of a mapping, as a bag.
RECURSIVE ChunkBag(_)
ChunkBag(chunks) ==
    IF DOMAIN chunks = {} THEN EmptyBag
    ELSE LET id == CHOOSE x \in DOMAIN chunks : TRUE
         IN  SeqBag(chunks[id]) (+) ChunkBag([x \in DOMAIN chunks \ {id} |-> chunks[x]])

\* The calls upsert makes, in order: the delete calls it hands to gather
\* (lines 29-40), the chunker (line 42), _upsert (line 44).
UpsertDeleteCalls(documents) ==
    [i \in 1..Len(DeleteCalls(documents)) |-> Call("delete", DeleteCalls(documents)[i])]

ChunkCalls(documents) == <<Call("get_document_chunks", documents)>>

InsertCalls(chunks) == <<Call("_upsert", chunks)>>

(***************************************************************************)
(* State.                                                                  *)
(***************************************************************************)
VARIABLES
    store,         \* the vector store backend: a bag of chunks
    \* upsert
    callNo,        \* upsert calls started so far
    upPc,          \* where the current upsert call is
    upDocs,        \* its documents
    delCalls,      \* its delete calls: arguments and status
    upChunks,      \* the chunks it handed to _upsert, Null before
    upResult,      \* the document ids it returned, Null if none
    orphans,       \* deletes of earlier, failed upsert calls that still run
    upserted,      \* document ids an upsert that returned has carried
    genCount,      \* ids the chunker has generated so far
    faults,        \* awaited collaborator calls of upsert that failed so far
    \* query
    qPc,           \* where the current query call is
    qQueries,      \* its queries
    qEmbeddings,   \* what the embedding provider returned for them, Null if nothing
    qHanded,       \* the queries with embeddings handed to _query, Null before
    qSearch,       \* what _query returned, Null before
    qResult,       \* what query returned, Null if nothing
    \* chat
    cPc,           \* where the current chat call is
    cMessages,     \* its messages
    chatLog,       \* the _chat invocations of the current chat or retrieve call
    cResult,       \* what chat returned, Null if nothing
    \* retrieve
    rPc,           \* where the current retrieve call is
    rIdx,          \* the position of its loop in query_results
    chat_results,  \* its accumulated chat results
    rResult,       \* what retrieve returned, Null if nothing
    \* delete requests
    dPc,           \* where the current delete request is
    dBody,         \* the body of the request
    dArgs,         \* the arguments the backend's delete was called with, Null if not
    dResult,       \* the success boolean it answered, Null if none
    dStoreAt,      \* the store when the request came in
    \* upsert calls in flight at the same time
    tasks,         \* for each of them: where it is, its documents, its deletes, its chunks
    \* every operation
    callLog        \* the calls the current operation has made so far, in order

upsertVars == <<callNo, upPc, upDocs, delCalls, upChunks, upResult, orphans, upserted,
                genCount, faults>>
queryVars == <<qPc, qQueries, qEmbeddings, qHanded, qSearch, qResult>>
chatVars == <<cPc, cMessages, chatLog, cResult>>
retrieveVars == <<rPc, rIdx, chat_results, rResult>>
deleteVars == <<dPc, dBody, dArgs, dResult, dStoreAt>>
concurrentVars == <<tasks>>

vars == <<store, upsertVars, queryVars, chatVars, retrieveVars, deleteVars, concurrentVars, callLog>>

\* The upsert calls that run at the same time.
TaskIds == {"A", "B"}

\* An upsert call that has not started.
IdleTask == [pc |-> "idle", docs |-> <<>>, dels |-> <<>>, chunks |-> Null, result |-> Null]

Pending(calls) == {i \in 1..Len(calls) : calls[i].status = "pending"}

SetStatus(calls, i, s) == [calls EXCEPT ![i].status = s]

\* No call has been made yet.
InitCalls ==
    /\ callNo = 0
    /\ upPc = "idle"
    /\ upDocs = <<>>
    /\ delCalls = <<>>
    /\ upChunks = Null
    /\ upResult = Null
    /\ orphans = EmptyBag
    /\ upserted = {}
    /\ genCount = 0
    /\ faults = 0
    /\ qPc = "idle"
    /\ qQueries = <<>>
    /\ qEmbeddings = Null
    /\ qHanded = Null
    /\ qSearch = Null
    /\ qResult = Null
    /\ cPc = "idle"
    /\ cMessages = <<>>
    /\ chatLog = <<>>
    /\ cResult = Null
    /\ rPc = "idle"
    /\ rIdx = 0
    /\ chat_results = <<>>
    /\ rResult = Null
    /\ dPc = "idle"
    /\ dBody = <<>>
    /\ dArgs = Null
    /\ dResult = Null
    /\ dStoreAt = EmptyBag
    /\ tasks = [t \in TaskIds |-> IdleTask]
    /\ callLog = <<>>

\* A new datastore: the store is empty.
Init ==
    /\ store = EmptyBag
    /\ InitCalls

(***************************************************************************)
(* upsert.                                                                 *)
(***************************************************************************)
\* A caller starts upsert(documents) once its previous call is over.  The
\* delete coroutines are created and handed to gather (lines 29-40); the
\* deletes of a failed earlier call that are still pending run on.
UpsertCall(documents) ==
    /\ upPc \in {"idle", "returned", "failed"}
    /\ callNo < MaxCalls
    /\ callNo' = callNo + 1
    /\ upDocs' = documents
    /\ delCalls' = [i \in 1..Len(DeleteCalls(documents)) |->
                       [args |-> DeleteCalls(documents)[i], status |-> "pending"]]
    /\ orphans' = orphans (+) SetToBag({delCalls[i].args : i \in Pending(delCalls)})
    /\ upPc' = "gather"
    /\ upChunks' = Null
    /\ upResult' = Null
    /\ UNCHANGED <<store, upserted, genCount, faults>>
    /\ UNCHANGED <<queryVars, chatVars, retrieveVars, deleteVars, concurrentVars>>
    /\ callLog' = UpsertDeleteCalls(documents)

\* One delete of the call runs in the backend and succeeds.
DeleteReturnsTrue(i) ==
    /\ i \in Pending(delCalls)
    /\ store' = Remove(store, delCalls[i].args)
    /\ delCalls' = SetStatus(delCalls, i, "true")
    /\ UNCHANGED <<callNo, upPc, upDocs, upChunks, upResult, orphans, upserted, genCount, faults>>
    /\ UNCHANGED <<queryVars, chatVars, retrieveVars, deleteVars, concurrentVars, callLog>>

\* One delete of the call reports that it was not successful (line 141): the
\* chunks stay.
DeleteReturnsFalse(i) ==
    /\ i \in Pending(delCalls)
    /\ faults < MaxFaults
    /\ faults' = faults + 1
    /\ delCalls' = SetStatus(delCalls, i, "false")
    /\ UNCHANGED <<store, callNo, upPc, upDocs, upChunks, upResult, orphans, upserted, genCount>>
    /\ UNCHANGED <<queryVars, chatVars, retrieveVars, deleteVars, concurrentVars, callLog>>

\* One delete of the call raises.
DeleteRaises(i) ==
    /\ i \in Pending(delCalls)
    /\ faults < MaxFaults
    /\ faults' = faults + 1
    /\ delCalls' = SetStatus(delCalls, i, "raised")
    /\ UNCHANGED <<store, callNo, upPc, upDocs, upChunks, upResult, orphans, upserted, genCount>>
    /\ UNCHANGED <<queryVars, chatVars, retrieveVars, deleteVars, concurrentVars, callLog>>

\* A delete left over from a failed call runs and succeeds.
OrphanDeleteReturnsTrue(args) ==
    /\ BagIn(args, orphans)
    /\ orphans' = orphans (-) SetToBag({args})
    /\ store' = Remove(store, args)
    /\ UNCHANGED <<callNo, upPc, upDocs, delCalls, upChunks, upResult, upserted, genCount, faults>>
    /\ UNCHANGED <<queryVars, chatVars, retrieveVars, deleteVars, concurrentVars, callLog>>

\* A delete left over from a failed call returns False or raises; no call
\* awaits its outcome any more.
OrphanDeleteFails(args) ==
    /\ BagIn(args, orphans)
    /\ orphans' = orphans (-) SetToBag({args})
    /\ UNCHANGED <<store, callNo, upPc, upDocs, delCalls, upChunks, upResult, upserted,
                   genCount, faults>>
    /\ UNCHANGED <<queryVars, chatVars, retrieveVars, deleteVars, concurrentVars, callLog>>

\* gather raises (line 29): the upsert call fails.
GatherRaise ==
    /\ upPc = "gather"
    /\ GatherRaises(delCalls)
    /\ upPc' = "failed"
    /\ UNCHANGED <<store, callNo, upDocs, delCalls, upChunks, upResult, orphans,
                   upserted, genCount, faults>>
    /\ UNCHANGED <<queryVars, chatVars, retrieveVars, deleteVars, concurrentVars, callLog>>

\* gather returns; the documents are chunked (line 42) and the chunks handed
\* to _upsert (line 44), which is awaited.
GatherReturn ==
    /\ upPc = "gather"
    /\ GatherReturns(delCalls)
    /\ upChunks' = Some(GetDocumentChunks(upDocs, genCount))
    /\ genCount' = genCount + Unnamed(upDocs, Len(upDocs) + 1)
    /\ upPc' = "_upsert"
    /\ UNCHANGED <<store, callNo, upDocs, delCalls, upResult, orphans, upserted, faults>>
    /\ UNCHANGED <<queryVars, chatVars, retrieveVars, deleteVars, concurrentVars>>
    /\ callLog' = callLog \o ChunkCalls(upDocs) \o InsertCalls(GetDocumentChunks(upDocs, genCount))

\* gather returns and the chunker raises (line 42): the upsert call fails.
ChunkerRaises ==
    /\ upPc = "gather"
    /\ GatherReturns(delCalls)
    /\ faults < MaxFaults
    /\ faults' = faults + 1
    /\ upPc' = "failed"
    /\ UNCHANGED <<store, callNo, upDocs, delCalls, upChunks, upResult, orphans, upserted, genCount>>
    /\ UNCHANGED <<queryVars, chatVars, retrieveVars, deleteVars, concurrentVars>>
    /\ callLog' = callLog \o ChunkCalls(upDocs)

\* _upsert persists every chunk it was given and returns the document ids;
\* upsert returns them (line 44).
UpsertReturn ==
    /\ upPc = "_upsert"
    /\ store' = store (+) ChunkBag(Val(upChunks))
    /\ upResult' = Some(DOMAIN Val(upChunks))
    /\ upserted' = upserted \cup {upDocs[i].id : i \in {j \in 1..Len(upDocs) : Truthy(upDocs[j].id)}}
    /\ upPc' = "returned"
    /\ UNCHANGED <<callNo, upDocs, delCalls, upChunks, orphans, genCount, faults>>
    /\ UNCHANGED <<queryVars, chatVars, retrieveVars, deleteVars, concurrentVars, callLog>>

\* _upsert raises: the upsert call fails.
UpsertRaises ==
    /\ upPc = "_upsert"
    /\ faults < MaxFaults
    /\ faults' = faults + 1
    /\ upPc' = "failed"
    /\ UNCHANGED <<store, callNo, upDocs, delCalls, upChunks, upResult, orphans, upserted, genCount>>
    /\ UNCHANGED <<queryVars, chatVars, retrieveVars, deleteVars, concurrentVars, callLog>>

\* The steps of an upsert call and of its collaborators, once called.
UpsertSteps ==
    \/ \E i \in 1..Len(delCalls) : DeleteReturnsTrue(i)
    \/ \E i \in 1..Len(delCalls) : DeleteReturnsFalse(i)
    \/ \E i \in 1..Len(delCalls) : DeleteRaises(i)
    \/ GatherRaise
    \/ GatherReturn
    \/ ChunkerRaises
    \/ UpsertReturn
    \/ UpsertRaises

\* The steps of the deletes that earlier upsert calls left running.
OrphanSteps ==
    \/ \E args \in DOMAIN orphans : OrphanDeleteReturnsTrue(args)
    \/ \E args \in DOMAIN orphans : OrphanDeleteFails(args)

NextUpsert ==
    \/ \E ids \in BatchIds : UpsertCall(Batch(ids, callNo + 1))
    \/ UpsertSteps
    \/ OrphanSteps

SpecUpsert == Init /\ [][NextUpsert]_vars

(***************************************************************************)
(* upsert calls in flight at the same time.  upsert takes no lock, so the  *)
(* steps of two calls interleave at their awaits; the backend runs each    *)
(* single delete and each single _upsert as one step.                      *)
(***************************************************************************)
\* The id fields of the batches of these calls: every document has an id.
NamedBatchIds == {b \in BatchIds : \A i \in 1..Len(b) : Truthy(b[i])}

\* The text of the documents of call t.
TaskText(t) == "t" \o t

OtherVars == <<upsertVars, queryVars, chatVars, retrieveVars, deleteVars, callLog>>

\* A caller starts upsert(documents) as call t (lines 29-40).
TaskUpsertCall(t, documents) ==
    /\ tasks[t].pc = "idle"
    /\ tasks' = [tasks EXCEPT ![t] =
                    [pc |-> "gather",
                     docs |-> documents,
                     dels |-> [i \in 1..Len(DeleteCalls(documents)) |->
                                  [args |-> DeleteCalls(documents)[i], status |-> "pending"]],
                     chunks |-> Null,
                     result |-> Null]]
    /\ UNCHANGED <<store, OtherVars>>

\* One delete of call t runs in the backend and succeeds.
TaskDeleteReturnsTrue(t, i) ==
    /\ i \in Pending(tasks[t].dels)
    /\ store' = Remove(store, tasks[t].dels[i].args)
    /\ tasks' = [tasks EXCEPT ![t].dels = SetStatus(tasks[t].dels, i, "true")]
    /\ UNCHANGED OtherVars

\* One delete of call t reports that it was not successful.
TaskDeleteReturnsFalse(t, i) ==
    /\ i \in Pending(tasks[t].dels)
    /\ tasks' = [tasks EXCEPT ![t].dels = SetStatus(tasks[t].dels, i, "false")]
    /\ UNCHANGED <<store, OtherVars>>

\* One delete of call t raises.
TaskDeleteRaises(t, i) ==
    /\ i \in Pending(tasks[t].dels)
    /\ tasks' = [tasks EXCEPT ![t].dels = SetStatus(tasks[t].dels, i, "raised")]
    /\ UNCHANGED <<store, OtherVars>>

\* gather raises in call t (line 29): the call fails.
TaskGatherRaise(t) ==
    /\ tasks[t].pc = "gather"
    /\ GatherRaises(tasks[t].dels)
    /\ tasks' = [tasks EXCEPT ![t].pc = "failed"]
    /\ UNCHANGED <<store, OtherVars>>

\* gather returns in call t; the documents are chunked (line 42) and the
\* chunks handed to _upsert (line 44).
TaskGatherReturn(t) ==
    /\ tasks[t].pc = "gather"
    /\ GatherReturns(tasks[t].dels)
    /\ tasks' = [tasks EXCEPT ![t].pc = "_upsert",
                              ![t].chunks = Some(GetDocumentChunks(tasks[t].docs, 0))]
    /\ UNCHANGED <<store, OtherVars>>

\* gather returns in call t and the chunker raises (line 42).
TaskChunkerRaises(t) ==
    /\ tasks[t].pc = "gather"
    /\ GatherReturns(tasks[t].dels)
    /\ tasks' = [tasks EXCEPT ![t].pc = "failed"]
    /\ UNCHANGED <<store, OtherVars>>

\* _upsert persists the chunks of call t and the call returns (line 44).
TaskUpsertReturn(t) ==
    /\ tasks[t].pc = "_upsert"
    /\ store' = store (+) ChunkBag(Val(tasks[t].chunks))
    /\ tasks' = [tasks EXCEPT ![t].pc = "returned",
                              ![t].result = Some(DOMAIN Val(tasks[t].chunks))]
    /\ UNCHANGED OtherVars

\* _upsert raises in call t: the call fails.
TaskUpsertRaises(t) ==
    /\ tasks[t].pc = "_upsert"
    /\ tasks' = [tasks EXCEPT ![t].pc = "failed"]
    /\ UNCHANGED <<store, OtherVars>>

NextConcurrent ==
    \/ \E t \in TaskIds : \E ids \in NamedBatchIds :
          TaskUpsertCall(t, [i \in 1..Len(ids) |-> Document(ids[i], TaskText(t))])
    \/ \E t \in TaskIds : \E i \in 1..Len(tasks[t].dels) : TaskDeleteReturnsTrue(t, i)
    \/ \E t \in TaskIds : \E i \in 1..Len(tasks[t].dels) : TaskDeleteReturnsFalse(t, i)
    \/ \E t \in TaskIds : \E i \in 1..Len(tasks[t].dels) : TaskDeleteRaises(t, i)
    \/ \E t \in TaskIds : TaskGatherRaise(t)
    \/ \E t \in TaskIds : TaskGatherReturn(t)
    \/ \E t \in TaskIds : TaskChunkerRaises(t)
    \/ \E t \in TaskIds : TaskUpsertReturn(t)
    \/ \E t \in TaskIds : TaskUpsertRaises(t)

SpecConcurrent == Init /\ [][NextConcurrent]_vars

(***************************************************************************)
(* query, lines 55-67.                                                     *)
(***************************************************************************)
\* A Query: its text, its optional filter, its top_k.
Query(text, filter, top_k) == [query |-> text, filter |-> filter, top_k |-> top_k]

\* The queries a caller sends: two texts, one of them also with a filter and
\* another top_k.
QueryChoices ==
    {Query("q1", Null, 3),
     Query("q2", Some([document_id |-> "d1"]), 1),
     Query("q1", Some([document_id |-> "d2"]), 1)}

QueryBatches == UNION {[1..k -> QueryChoices] : k \in 0..MaxQueries}

\* query_texts = [query.query for query in queries]
QueryTexts(queries) == [i \in 1..Len(queries) |-> queries[i].query]

\* The vector of a text.
Embed(text) == "e(" \o text \o ")"

Reverse(seq) == [i \in 1..Len(seq) |-> seq[Len(seq) + 1 - i]]

\* get_embeddings(query_texts), when it returns: by its contract one vector
\* per text in input order; the source checks neither, so a provider that
\* returns one vector less, one more (the first again), or the vectors in
\* reverse is an outcome too.
EmbeddingReturns(texts) ==
    LET inOrder == [i \in 1..Len(texts) |-> Embed(texts[i])]
    IN  {inOrder,
         SubSeq(inOrder, 1, Len(inOrder) - 1),
         inOrder \o (IF inOrder = <<>> THEN <<>> ELSE <<inOrder[1]>>),
         Reverse(inOrder)}

\* A mutant: the embedding goes to the query at the mirrored position.
QueriesWithEmbeddingsMirrored(queries, embeddings) ==
    [i \in 1..(IF Len(queries) < Len(embeddings) THEN Len(queries) ELSE Len(embeddings)) |->
        [query |-> queries[i].query,
         filter |-> queries[i].filter,
         top_k |-> queries[i].top_k,
         embedding |-> embeddings[Len(embeddings) + 1 - i]]]

\* [QueryWithEmbedding(**query.dict(), embedding=embedding)
\*  for query, embedding in zip(queries, query_embeddings)]: zip stops at the
\* shorter of its two lists.
QueriesWithEmbeddings(queries, embeddings) ==
    [i \in 1..(IF Len(queries) < Len(embeddings) THEN Len(queries) ELSE Len(embeddings)) |->
        [query |-> queries[i].query,
         filter |-> queries[i].filter,
         top_k |-> queries[i].top_k,
         embedding |-> embeddings[i]]]

\* The call of the embedding provider query makes: one, with the texts of
\* the whole batch (lines 60-61).
EmbedCalls(queries) == <<Call("get_embeddings", QueryTexts(queries))>>

\* A mutant: one call of the embedding provider for each query.
QueryCallsPerQuery(queries, embeddings) ==
    [i \in 1..Len(queries) |-> Call("get_embeddings", <<queries[i].query>>)]
    \o <<Call("_query", QueriesWithEmbeddings(queries, embeddings))>>

\* The calls query makes, in order: get_embeddings (line 61), then _query
\* with the hydrated queries (line 67).
QueryCalls(queries, embeddings) ==
    EmbedCalls(queries) \o <<Call("_query", QueriesWithEmbeddings(queries, embeddings))>>

\* return await self._query(queries_with_embeddings): the backend's results
\* as they are.
QueryReturn(results) == results

\* The matches of the model: a text and its score (in hundredths).
Hi == [text |-> "relevant", score |-> 95]
Lo == [text |-> "other", score |-> 90]

\* The lists of matches a backend answers one query with.  _query (lines
\* 69-74) promises no order, so both orders of two matches are outcomes.
MatchChoices == {<<>>, <<Hi>>, <<Hi, Lo>>, <<Lo, Hi>>}

\* _query(queries), when it returns: one QueryResult per query it was given,
\* in order, each with the query's text and at most top_k matches.
SearchReturns(handed) ==
    {[i \in 1..Len(handed) |-> [query |-> handed[i].query, results |-> ms[i]]] :
        ms \in {m \in [1..Len(handed) -> MatchChoices] :
                   \A i \in 1..Len(handed) : Len(m[i]) <= handed[i].top_k}}

\* query up to its await of _query (lines 60-67).
QueryBegin(queries, embeddings) ==
    /\ qQueries' = queries
    /\ qEmbeddings' = Some(embeddings)
    /\ qHanded' = Some(QueriesWithEmbeddings(queries, embeddings))
    /\ qSearch' = Null
    /\ qResult' = Null
    /\ qPc' = "_query"

\* query when get_embeddings raises (line 61).
QueryEmbedFail(queries) ==
    /\ qQueries' = queries
    /\ qEmbeddings' = Null
    /\ qHanded' = Null
    /\ qSearch' = Null
    /\ qResult' = Null
    /\ qPc' = "failed"

\* No query, chat or retrieve call is under way.
Quiet ==
    /\ qPc \in {"idle", "returned", "failed"}
    /\ cPc \in {"idle", "returned", "failed"}
    /\ rPc \in {"idle", "returned", "failed"}

\* A caller calls query(queries); the embedding provider answers.
QueryCall(queries, embeddings) ==
    /\ Quiet
    /\ QueryBegin(queries, embeddings)
    /\ rPc' = "idle"
    /\ UNCHANGED <<rIdx, chat_results, rResult>>
    /\ UNCHANGED <<store, upsertVars, chatVars, deleteVars, concurrentVars>>
    /\ callLog' = QueryCalls(queries, embeddings)

\* A caller calls query(queries); the embedding provider raises.
QueryEmbedRaises(queries) ==
    /\ Quiet
    /\ QueryEmbedFail(queries)
    /\ rPc' = "idle"
    /\ UNCHANGED <<rIdx, chat_results, rResult>>
    /\ UNCHANGED <<store, upsertVars, chatVars, deleteVars, concurrentVars>>
    /\ callLog' = EmbedCalls(queries)

\* _query returns and query returns its results (line 67); a retrieve call
\* that awaited query goes on to its loop (lines 116-118).
BackendQueryReturns ==
    /\ qPc = "_query"
    /\ \E results \in SearchReturns(Val(qHanded)) :
          /\ qSearch' = Some(results)
          /\ qResult' = Some(QueryReturn(results))
    /\ qPc' = "returned"
    /\ IF rPc = "query"
       THEN rPc' = "loop" /\ rIdx' = 1 /\ chat_results' = <<>> /\ UNCHANGED rResult
       ELSE UNCHANGED retrieveVars
    /\ UNCHANGED <<qQueries, qEmbeddings, qHanded>>
    /\ UNCHANGED <<store, upsertVars, chatVars, deleteVars, concurrentVars, callLog>>

\* _query raises: query fails, and with it a retrieve call that awaited it.
BackendQueryRaises ==
    /\ qPc = "_query"
    /\ qPc' = "failed"
    /\ IF rPc = "query"
       THEN rPc' = "failed" /\ UNCHANGED <<rIdx, chat_results, rResult>>
       ELSE UNCHANGED retrieveVars
    /\ UNCHANGED <<qQueries, qEmbeddings, qHanded, qSearch, qResult>>
    /\ UNCHANGED <<store, upsertVars, chatVars, deleteVars, concurrentVars, callLog>>

NextQuery ==
    \/ \E queries \in QueryBatches :
          \E embeddings \in EmbeddingReturns(QueryTexts(queries)) :
              QueryCall(queries, embeddings)
    \/ \E queries \in QueryBatches : QueryEmbedRaises(queries)
    \/ BackendQueryReturns
    \/ BackendQueryRaises

SpecQuery == Init /\ [][NextQuery]_vars

(***************************************************************************)
(* chat, lines 76-104.                                                     *)
(***************************************************************************)
\* A Message object, as the pairs of field and value that iterating over it
\* gives.
Message(role, content) == <<<<"role", role>>, <<"content", content>>>>

Roles == {"system", "user", "assistant"}
Contents == {"c1", "c2"}

\* The message lists a caller hands to chat (the empty one included).
MessageLists ==
    UNION {[1..k -> {Message(role, content) : role \in Roles, content \in Contents}] :
              k \in 0..MaxMsgs}

\* dict((k, v) for k, v in m): the mapping from each field to its value.
ToDict(m) ==
    [k \in {m[i][1] : i \in 1..Len(m)} |->
        (CHOOSE pair \in {m[i] : i \in 1..Len(m)} : pair[1] = k)[2]]

\* The three literals of lines 80-99, by their names.
system_msg == "system_msg"
human_msg == "human_msg"
ai_msg == "ai_msg"

\* A mutant: the caller's messages come before the fixed ones.
ChatMsgScaffoldLast(messages) ==
    [i \in 1..Len(messages) |-> ToDict(messages[i])]
    \o <<[role |-> "system", content |-> system_msg],
         [role |-> "user", content |-> human_msg],
         [role |-> "assistant", content |-> ai_msg]>>

\* msg = [system, user, assistant] (line 101) followed by the caller's
\* messages as dicts (line 102).
ChatMsg(messages) ==
    <<[role |-> "system", content |-> system_msg],
      [role |-> "user", content |-> human_msg],
      [role |-> "assistant", content |-> ai_msg]>>
    \o [i \in 1..Len(messages) |-> ToDict(messages[i])]

\* A mutant: chat also stores the conversation in the datastore.
ChatCallsStoring(messages) ==
    <<Call("_chat", ChatMsg(messages)), Call("_upsert", ChatMsg(messages))>>

\* The call chat makes: _chat with msg (line 104).
ChatCalls(messages) == <<Call("_chat", ChatMsg(messages))>>

\* The contents of a list of dicts from position i on, joined.
RECURSIVE Joined(_, _)
Joined(msg, i) ==
    IF i > Len(msg) THEN "" ELSE "[" \o msg[i].content \o "]" \o Joined(msg, i + 1)

\* The k-th ChatResult of the chat model for a list of messages: an answer
\* that tells which messages (after the first three) it answers.
Answer(msg, k) ==
    [role |-> "assistant", content |-> "answer" \o ToString(k) \o Joined(msg, 4)]

\* _chat(msg), when it returns: one ChatResult or two.
ChatReturns(msg) == {<<Answer(msg, 1)>>, <<Answer(msg, 1), Answer(msg, 2)>>}

\* chat up to its await of _chat (lines 101-104); log is the list of _chat
\* invocations the new one is added to.
ChatBegin(messages, log) ==
    /\ cMessages' = messages
    /\ chatLog' = Append(log, [messages |-> ChatMsg(messages), result |-> Null])
    /\ cResult' = Null
    /\ cPc' = "_chat"

\* A caller calls chat(messages).
ChatCall(messages) ==
    /\ Quiet
    /\ ChatBegin(messages, <<>>)
    /\ rPc' = "idle"
    /\ UNCHANGED <<rIdx, chat_results, rResult>>
    /\ UNCHANGED <<store, upsertVars, queryVars, deleteVars, concurrentVars>>
    /\ callLog' = ChatCalls(messages)

\* A mutant: the results of a chat call go before the accumulated ones.
AccumulateInFront(results, chat_result) == chat_result \o results

\* chat_results += chat_result (line 127).
Accumulate(results, chat_result) == results \o chat_result

\* _chat returns and chat returns its results (line 104); a retrieve call
\* that awaited chat adds them to its own and goes on with its loop (lines
\* 126-127).
BackendChatReturns ==
    /\ cPc = "_chat"
    /\ \E results \in ChatReturns(chatLog[Len(chatLog)].messages) :
          /\ cResult' = Some(results)
          /\ chatLog' = [chatLog EXCEPT ![Len(chatLog)].result = Some(results)]
          /\ IF rPc = "chat"
             THEN /\ chat_results' = Accumulate(chat_results, results)
                  /\ rIdx' = rIdx + 1
                  /\ rPc' = "loop"
                  /\ UNCHANGED rResult
             ELSE UNCHANGED retrieveVars
    /\ cPc' = "returned"
    /\ UNCHANGED cMessages
    /\ UNCHANGED <<store, upsertVars, queryVars, deleteVars, concurrentVars, callLog>>

\* A mutant: retrieve catches the failure of chat and goes on with the next
\* query result.
BackendChatRaisesCaught ==
    /\ cPc = "_chat"
    /\ cPc' = "failed"
    /\ IF rPc = "chat"
       THEN rPc' = "loop" /\ rIdx' = rIdx + 1 /\ UNCHANGED <<chat_results, rResult>>
       ELSE UNCHANGED retrieveVars
    /\ UNCHANGED <<cMessages, chatLog, cResult>>
    /\ UNCHANGED <<store, upsertVars, queryVars, deleteVars, concurrentVars, callLog>>

\* _chat raises: chat fails, and with it a retrieve call that awaited it.
BackendChatRaises ==
    /\ cPc = "_chat"
    /\ cPc' = "failed"
    /\ IF rPc = "chat"
       THEN rPc' = "failed" /\ UNCHANGED <<rIdx, chat_results, rResult>>
       ELSE UNCHANGED retrieveVars
    /\ UNCHANGED <<cMessages, chatLog, cResult>>
    /\ UNCHANGED <<store, upsertVars, queryVars, deleteVars, concurrentVars, callLog>>

NextChat ==
    \/ \E messages \in MessageLists : ChatCall(messages)
    \/ BackendChatReturns
    \/ BackendChatRaises

SpecChat == Init /\ [][NextChat]_vars

(***************************************************************************)
(* retrieve, lines 114-128.                                                *)
(***************************************************************************)
\* size = len(query_result.results); if size > 0 (lines 119-120).
HasMatches(query_result) == Len(query_result.results) > 0

\* text = query_result.results[0].text (line 121).
FirstText(query_result) == query_result.results[1].text

\* A mutant: the query string goes first and the retrieved text second.
RetrieveMessageQueryFirst(query_result) ==
    <<Message("user", query_result.query), Message("user", FirstText(query_result))>>

\* message = [Message(role='user', content=text),
\*            Message(role='user', content=query_result.query)] (line 125).
RetrieveMessage(query_result) ==
    <<Message("user", FirstText(query_result)), Message("user", query_result.query)>>

\* The calls retrieve makes: query with the whole batch (line 116), and for
\* a query result with a match chat with the two messages (line 126), which
\* makes its own.
RetrieveQueryCalls(queries) == <<Call("query", queries)>>

RetrieveChatCalls(query_result) ==
    <<Call("chat", RetrieveMessage(query_result))>> \o ChatCalls(RetrieveMessage(query_result))

\* A caller calls retrieve(queries), which calls query (line 116); the
\* embedding provider answers.
RetrieveCall(queries, embeddings) ==
    /\ Quiet
    /\ QueryBegin(queries, embeddings)
    /\ rPc' = "query"
    /\ rIdx' = 0
    /\ chat_results' = <<>>
    /\ rResult' = Null
    /\ cPc' = "idle"
    /\ cMessages' = <<>>
    /\ chatLog' = <<>>
    /\ cResult' = Null
    /\ UNCHANGED <<store, upsertVars, deleteVars, concurrentVars>>
    /\ callLog' = RetrieveQueryCalls(queries) \o QueryCalls(queries, embeddings)

\* A caller calls retrieve(queries); the embedding provider raises, query
\* fails and retrieve with it.
RetrieveEmbedRaises(queries) ==
    /\ Quiet
    /\ QueryEmbedFail(queries)
    /\ rPc' = "failed"
    /\ rIdx' = 0
    /\ chat_results' = <<>>
    /\ rResult' = Null
    /\ cPc' = "idle"
    /\ cMessages' = <<>>
    /\ chatLog' = <<>>
    /\ cResult' = Null
    /\ UNCHANGED <<store, upsertVars, deleteVars, concurrentVars>>
    /\ callLog' = RetrieveQueryCalls(queries) \o EmbedCalls(queries)

\* A mutant: the loop does not move on from a query result without a match.
RetrieveSkipStays ==
    /\ rPc = "loop"
    /\ rIdx <= Len(Val(qResult))
    /\ ~HasMatches(Val(qResult)[rIdx])
    /\ UNCHANGED vars

\* The loop passes a query result that has no match (line 120).
RetrieveSkip ==
    /\ rPc = "loop"
    /\ rIdx <= Len(Val(qResult))
    /\ ~HasMatches(Val(qResult)[rIdx])
    /\ rIdx' = rIdx + 1
    /\ UNCHANGED <<rPc, chat_results, rResult>>
    /\ UNCHANGED <<store, upsertVars, queryVars, chatVars, deleteVars, concurrentVars, callLog>>

\* The loop is at a query result with a match: chat is called with the two
\* messages (lines 121-126).
RetrieveChat ==
    /\ rPc = "loop"
    /\ rIdx <= Len(Val(qResult))
    /\ HasMatches(Val(qResult)[rIdx])
    /\ ChatBegin(RetrieveMessage(Val(qResult)[rIdx]), chatLog)
    /\ rPc' = "chat"
    /\ UNCHANGED <<rIdx, chat_results, rResult>>
    /\ UNCHANGED <<store, upsertVars, queryVars, deleteVars, concurrentVars>>
    /\ callLog' = callLog \o RetrieveChatCalls(Val(qResult)[rIdx])

\* The loop is over: retrieve returns chat_results (line 128).
RetrieveReturn ==
    /\ rPc = "loop"
    /\ rIdx > Len(Val(qResult))
    /\ rResult' = Some(chat_results)
    /\ rPc' = "returned"
    /\ UNCHANGED <<rIdx, chat_results>>
    /\ UNCHANGED <<store, upsertVars, queryVars, chatVars, deleteVars, concurrentVars, callLog>>

NextRetrieve ==
    \/ \E queries \in QueryBatches :
          \E embeddings \in EmbeddingReturns(QueryTexts(queries)) :
              RetrieveCall(queries, embeddings)
    \/ \E queries \in QueryBatches : RetrieveEmbedRaises(queries)
    \/ BackendQueryReturns
    \/ BackendQueryRaises
    \/ RetrieveSkip
    \/ RetrieveChat
    \/ BackendChatReturns
    \/ BackendChatRaises
    \/ RetrieveReturn

SpecRetrieve == Init /\ [][NextRetrieve]_vars

(***************************************************************************)
(* The four operations of the orchestrator together.  DataStore has no     *)
(* field, so the calls of two operations work on no common state of the    *)
(* orchestrator: a behaviour has the calls of one operation (retrieve with *)
(* the query and chat calls it makes itself).                              *)
(***************************************************************************)
\* No call of another operation was made before a call of upsert, of query,
\* of chat, of retrieve.
UpsertOnly == qPc = "idle" /\ cPc = "idle"
QueryOnly == callNo = 0 /\ rPc = "idle" /\ cPc = "idle"
ChatOnly == callNo = 0 /\ qPc = "idle"
RetrieveOnly == callNo = 0 /\ (rPc # "idle" \/ (qPc = "idle" /\ cPc = "idle"))

\* The steps of query, chat and retrieve calls and of their collaborators,
\* once called.
ReadSteps ==
    \/ BackendQueryReturns
    \/ BackendQueryRaises
    \/ RetrieveSkip
    \/ RetrieveChat
    \/ BackendChatReturns
    \/ BackendChatRaises
    \/ RetrieveReturn

\* The calls of query, chat and retrieve, and their steps.
NextRead ==
    \/ \E queries \in QueryBatches :
          \E embeddings \in EmbeddingReturns(QueryTexts(queries)) :
              QueryOnly /\ QueryCall(queries, embeddings)
    \/ \E queries \in QueryBatches : QueryOnly /\ QueryEmbedRaises(queries)
    \/ \E messages \in MessageLists : ChatOnly /\ ChatCall(messages)
    \/ \E queries \in QueryBatches :
          \E embeddings \in EmbeddingReturns(QueryTexts(queries)) :
              RetrieveOnly /\ RetrieveCall(queries, embeddings)
    \/ \E queries \in QueryBatches : RetrieveOnly /\ RetrieveEmbedRaises(queries)
    \/ ReadSteps

\* A datastore that holds the chunks of two documents.
StoredChunks == ChunkBag(GetDocumentChunks(Batch(<<"d1", "d2">>, 0), 0))

InitRead ==
    /\ store = StoredChunks
    /\ InitCalls

\* query, chat and retrieve calls on that datastore.
SpecRead == InitRead /\ [][NextRead]_vars

NextOrchestrator ==
    \/ \E ids \in BatchIds : UpsertOnly /\ UpsertCall(Batch(ids, callNo + 1))
    \/ UpsertSteps
    \/ OrphanSteps
    \/ NextRead

SpecOrchestrator == Init /\ [][NextOrchestrator]_vars

\* No call was made yet.
Fresh == callNo = 0 /\ qPc = "idle" /\ cPc = "idle" /\ rPc = "idle"

\* One call of one of the four operations on a new datastore, and its steps.
NextCall ==
    \/ \E ids \in BatchIds : Fresh /\ UpsertCall(Batch(ids, 1))
    \/ UpsertSteps
    \/ \E queries \in QueryBatches :
          \E embeddings \in EmbeddingReturns(QueryTexts(queries)) :
              Fresh /\ QueryCall(queries, embeddings)
    \/ \E queries \in QueryBatches : Fresh /\ QueryEmbedRaises(queries)
    \/ \E messages \in MessageLists : Fresh /\ ChatCall(messages)
    \/ \E queries \in QueryBatches :
          \E embeddings \in EmbeddingReturns(QueryTexts(queries)) :
              Fresh /\ RetrieveCall(queries, embeddings)
    \/ \E queries \in QueryBatches : Fresh /\ RetrieveEmbedRaises(queries)
    \/ ReadSteps

\* The call with the scheduling the event loop and the collaborators give: a
\* coroutine that can go on does, and a collaborator that was called returns
\* or raises.
FairCall ==
    /\ Init
    /\ [][NextCall]_vars
    /\ WF_vars(UpsertSteps)
    /\ WF_vars(ReadSteps)

(***************************************************************************)
(* delete requests: DeleteRequest (src/models/api.py, lines 34-37) and the *)
(* delete operation of section 4.5 of the specification that serves them.  *)
(***************************************************************************)
\* The bodies of the delete requests a caller sends: each of the three fields
\* is absent, None or set.
DeleteBodies ==
    {[f \in fields |-> values[f]] :
        fields \in SUBSET {"ids", "filter", "delete_all"},
        values \in {[ids |-> i, filter |-> f, delete_all |-> a] :
                       i \in {Null, Some(<<"d1_0">>)},
                       f \in {Null, Some([document_id |-> "d2"])},
                       a \in {Null, Some(FALSE), Some(TRUE)}}}

\* A mutant: delete_all is True when the request does not say.
DeleteRequestWipes(body) ==
    [ids |-> IF "ids" \in DOMAIN body THEN body.ids ELSE Null,
     filter |-> IF "filter" \in DOMAIN body THEN body.filter ELSE Null,
     delete_all |-> IF "delete_all" \in DOMAIN body THEN body.delete_all ELSE Some(TRUE)]

\* DeleteRequest: a field the body leaves out takes its default, None for ids
\* and filter, False for delete_all.
DeleteRequest(body) ==
    [ids |-> IF "ids" \in DOMAIN body THEN body.ids ELSE Null,
     filter |-> IF "filter" \in DOMAIN body THEN body.filter ELSE Null,
     delete_all |-> IF "delete_all" \in DOMAIN body THEN body.delete_all ELSE Some(FALSE)]

\* Parameter validation: at least one of the three parameters is set to
\* something: a non-empty list of ids, a filter, or delete_all True.
MeaningfullySet(request) ==
    \/ request.ids # Null /\ Len(Val(request.ids)) > 0
    \/ request.filter # Null
    \/ request.delete_all = Some(TRUE)

\* The call that serves an accepted delete request: the backend's delete
\* with the fields of the request.
BackendDeleteCalls(request) == <<Call("delete", request)>>

\* A delete request comes in and is rejected: the backend is not called.
DeleteRejected(body) ==
    /\ dPc \in {"idle", "rejected", "returned", "failed"}
    /\ ~MeaningfullySet(DeleteRequest(body))
    /\ dBody' = body
    /\ dStoreAt' = store
    /\ dArgs' = Null
    /\ dResult' = Null
    /\ dPc' = "rejected"
    /\ UNCHANGED <<store, upsertVars, queryVars, chatVars, retrieveVars, concurrentVars>>
    /\ callLog' = <<>>

\* A delete request comes in and is passed to the backend's delete.
DeleteAccepted(body) ==
    /\ dPc \in {"idle", "rejected", "returned", "failed"}
    /\ MeaningfullySet(DeleteRequest(body))
    /\ dBody' = body
    /\ dStoreAt' = store
    /\ dArgs' = Some(DeleteRequest(body))
    /\ dResult' = Null
    /\ dPc' = "delete"
    /\ UNCHANGED <<store, upsertVars, queryVars, chatVars, retrieveVars, concurrentVars>>
    /\ callLog' = BackendDeleteCalls(DeleteRequest(body))

\* The backend's delete succeeds: the request is answered True.
BackendDeleteReturnsTrue ==
    /\ dPc = "delete"
    /\ store' = Remove(store, Val(dArgs))
    /\ dResult' = Some(TRUE)
    /\ dPc' = "returned"
    /\ UNCHANGED <<dBody, dArgs, dStoreAt>>
    /\ UNCHANGED <<upsertVars, queryVars, chatVars, retrieveVars, concurrentVars, callLog>>

\* The backend's delete reports no success: the request is answered False.
BackendDeleteReturnsFalse ==
    /\ dPc = "delete"
    /\ dResult' = Some(FALSE)
    /\ dPc' = "returned"
    /\ UNCHANGED <<dBody, dArgs, dStoreAt>>
    /\ UNCHANGED <<store, upsertVars, queryVars, chatVars, retrieveVars, concurrentVars, callLog>>

\* The backend's delete raises: the request fails.
BackendDeleteRaises ==
    /\ dPc = "delete"
    /\ dPc' = "failed"
    /\ UNCHANGED <<dBody, dArgs, dResult, dStoreAt>>
    /\ UNCHANGED <<store, upsertVars, queryVars, chatVars, retrieveVars, concurrentVars, callLog>>

\* The stores delete requests are made on: what the upsert of a batch leaves
\* in a new datastore.
InitDelete ==
    /\ store \in {ChunkBag(GetDocumentChunks(Batch(ids, 0), 0)) : ids \in BatchIds}
    /\ InitCalls

NextDelete ==
    \/ \E body \in DeleteBodies : DeleteRejected(body)
    \/ \E body \in DeleteBodies : DeleteAccepted(body)
    \/ BackendDeleteReturnsTrue
    \/ BackendDeleteReturnsFalse
    \/ BackendDeleteRaises

SpecDelete == InitDelete /\ [][NextDelete]_vars

(***************************************************************************)
(* Claims about upsert, under SpecUpsert.                                  *)
(***************************************************************************)
\* The chunks the store holds for a document id, as a bag.
StoreFor(bag, id) ==
    [chunk \in {x \in DOMAIN bag : x.document_id = id} |-> bag[chunk]]

\* The document ids of the current batch that are set (neither None nor "").
NamedIds == {upDocs[i].id : i \in {j \in 1..Len(upDocs) : Truthy(upDocs[j].id)}}

\* The position in the batch of its k-th document with an id.
NamedIndex(k) ==
    CHOOSE i \in 1..Len(upDocs) :
        /\ Truthy(upDocs[i].id)
        /\ Cardinality({j \in 1..i : Truthy(upDocs[j].id)}) = k

\* C1: idempotent replace.  When an upsert call returns that carries a
\* document id D which an earlier upsert call (returned before this one
\* started) carried too, the store holds for D exactly the chunks this call
\* produced for D: no chunk of the earlier call, no chunk twice.
C1_IdempotentReplace ==
    [][(upPc = "_upsert" /\ upPc' = "returned") =>
          \A id \in NamedIds \cap upserted :
              StoreFor(store', id) = SeqBag(Val(upChunks)[id])]_vars

\* C2: the insertion primitive is invoked only after every delete call of the
\* upsert has completed: whenever the chunks have been handed to _upsert, no
\* delete call of that upsert is pending.
C2_InsertAfterDeletes ==
    upChunks # Null => Pending(delCalls) = {}

\* C2 witness: _upsert is running for a call that issued two deletes.
C2_Witness ==
    upPc = "_upsert" /\ Len(delCalls) >= 2

\* C3: once a delete call of an upsert has raised, the upsert fails: it is
\* waiting in gather or has failed, it has returned no ids, nothing was handed
\* to _upsert, and the store holds no chunk of this call.
C3_DeleteFailureFailsUpsert ==
    GatherRaises(delCalls) =>
        /\ upPc \in {"gather", "failed"}
        /\ upChunks = Null
        /\ upResult = Null
        /\ \A chunk \in DOMAIN store : chunk.text # TextOf(callNo)

\* C3 witness: the call has failed on a delete that raised while another of
\* its deletes had succeeded, and every delete is over.
C3_Witness ==
    /\ upPc = "failed"
    /\ GatherRaises(delCalls)
    /\ \E i \in 1..Len(delCalls) : delCalls[i].status = "true"
    /\ Pending(delCalls) = {}

\* The delete calls of the current upsert are, in order, one per document
\* with an id: no ids list, a filter on that document's id, delete_all False.
IssuedDeletes ==
    /\ Len(delCalls) = Cardinality({i \in 1..Len(upDocs) : Truthy(upDocs[i].id)})
    /\ \A k \in 1..Len(delCalls) :
          delCalls[k].args = [ids |-> Null,
                              filter |-> Some([document_id |-> upDocs[NamedIndex(k)].id]),
                              delete_all |-> Some(FALSE)]

\* A step in which a delete call of the current upsert completes leaves every
\* chunk of another document id as it was.
DeleteFrame ==
    \A k \in 1..Len(delCalls) :
        (/\ callNo' = callNo
         /\ delCalls[k].status = "pending"
         /\ delCalls'[k].status # "pending") =>
            \A chunk \in DOMAIN store :
                chunk.document_id # upDocs[NamedIndex(k)].id =>
                    /\ chunk \in DOMAIN store'
                    /\ store'[chunk] = store[chunk]

\* C10: selective delete.  upsert issues a delete for exactly the documents
\* with a non-empty id, each filtered on that id, never a delete-all, and
\* none for a document whose id is None or ""; so a delete of the call
\* changes no chunk of a document id other than its own.
C10_SelectiveDelete ==
    []IssuedDeletes /\ [][DeleteFrame]_vars

\* C10 witness: the batch has a document with an id and one without; the
\* delete for the first has removed its chunks while the store keeps the
\* chunks of another document.
C10_Witness ==
    /\ upPc = "gather"
    /\ Len(delCalls) = 1
    /\ Len(upDocs) = 2
    /\ delCalls[1].status = "true"
    /\ upDocs[NamedIndex(1)].id \in upserted
    /\ store # EmptyBag

\* C13: delete success is required for insertion.  The chunks of an upsert
\* are handed to _upsert only when every delete call it issued returned True;
\* once a delete call has returned False the upsert is waiting in gather or
\* has failed, and it returns no ids.
C13_DeleteSuccessRequired ==
    /\ upChunks # Null =>
          \A i \in 1..Len(delCalls) : delCalls[i].status = "true"
    /\ (\E i \in 1..Len(delCalls) : delCalls[i].status = "false") =>
          /\ upPc \in {"gather", "failed"}
          /\ upResult = Null

\* C16: no delete outlives its upsert.  When an upsert call is over, by
\* returning ids or by failing, none of the delete calls it started is
\* pending, and none of an earlier call is.
C16_NoDeleteOutlivesUpsert ==
    /\ upPc \in {"returned", "failed"} => Pending(delCalls) = {}
    /\ orphans = EmptyBag

(***************************************************************************)
(* Claims about upsert calls in flight at the same time, under             *)
(* SpecConcurrent.                                                         *)
(***************************************************************************)
\* The document ids of the batch of call t.
TaskDocIds(t) == {tasks[t].docs[i].id : i \in 1..Len(tasks[t].docs)}

\* Every delete of call t reported success.
TaskDeletesSucceeded(t) ==
    \A i \in 1..Len(tasks[t].dels) : tasks[t].dels[i].status = "true"

\* C12: concurrent replace.  When the two upsert calls have returned, every
\* delete of theirs having succeeded, the store holds for each document id
\* that both carried the chunks of exactly one of the two calls: never the
\* chunks of both, no chunk twice.
C12_ConcurrentReplace ==
    (\A t \in TaskIds : tasks[t].pc = "returned" /\ TaskDeletesSucceeded(t)) =>
        \A id \in TaskDocIds("A") \cap TaskDocIds("B") :
            \E t \in TaskIds : StoreFor(store, id) = SeqBag(Val(tasks[t].chunks)[id])

(***************************************************************************)
(* Claims about query, under SpecQuery.                                    *)
(***************************************************************************)
\* One vector per query, in input order.
InOrder(queries) == [i \in 1..Len(queries) |-> Embed(queries[i].query)]

\* C4: order preservation.  When the embedding provider returned one vector
\* per query in input order, the i-th QueryWithEmbedding handed to _query has
\* the i-th query's text, filter and top_k and the i-th vector, and query
\* returns what _query returned, unchanged: one result per query, the i-th
\* with the i-th query's text.
C4_OrderPreservation ==
    (qHanded # Null /\ Val(qEmbeddings) = InOrder(qQueries)) =>
        /\ Len(Val(qHanded)) = Len(qQueries)
        /\ \A i \in 1..Len(qQueries) :
              Val(qHanded)[i] = [query |-> qQueries[i].query,
                                 filter |-> qQueries[i].filter,
                                 top_k |-> qQueries[i].top_k,
                                 embedding |-> Val(qEmbeddings)[i]]
        /\ qResult # Null =>
              /\ Val(qResult) = Val(qSearch)
              /\ Len(Val(qResult)) = Len(qQueries)
              /\ \A i \in 1..Len(qQueries) : Val(qResult)[i].query = qQueries[i].query

\* C4 witness: query has returned for two queries with different texts whose
\* vectors came in input order.
C4_Witness ==
    /\ qPc = "returned"
    /\ Len(qQueries) = 2
    /\ qQueries[1].query # qQueries[2].query
    /\ Val(qEmbeddings) = InOrder(qQueries)

\* C5: a consistency failure is fatal.  When the embedding provider returned
\* a number of vectors other than the number of queries, query has failed:
\* nothing was handed to _query and nothing is returned.
C5_MismatchIsFatal ==
    (qEmbeddings # Null /\ Len(Val(qEmbeddings)) # Len(qQueries)) =>
        /\ qPc = "failed"
        /\ qHanded = Null
        /\ qResult = Null

(***************************************************************************)
(* Claims about chat, under SpecChat.                                      *)
(***************************************************************************)
\* C6: prompt scaffold invariance.  For a call chat(M), _chat is invoked once,
\* with the system, user and assistant messages of the scaffold, in that
\* order, followed by the role and content of each message of M in M's order.
C6_PromptScaffold ==
    cPc # "idle" =>
        /\ Len(chatLog) = 1
        /\ chatLog[1].messages =
              <<[role |-> "system", content |-> system_msg],
                [role |-> "user", content |-> human_msg],
                [role |-> "assistant", content |-> ai_msg]>>
              \o [i \in 1..Len(cMessages) |->
                     [role |-> cMessages[i][1][2], content |-> cMessages[i][2][2]]]

\* C6 witness: chat has returned for two different caller messages.
C6_Witness ==
    /\ cPc = "returned"
    /\ Len(cMessages) = 2
    /\ cMessages[1] # cMessages[2]

(***************************************************************************)
(* Claims about retrieve, under SpecRetrieve.                              *)
(***************************************************************************)
\* The positions of the query results that have a match.
Matched == {i \in 1..Len(Val(qResult)) : Len(Val(qResult)[i].results) > 0}

\* The position of the k-th query result that has a match.
MatchedIndex(k) ==
    CHOOSE i \in Matched : Cardinality({j \in Matched : j <= i}) = k

\* The results of the first k _chat invocations, one after the other.
RECURSIVE Answers(_)
Answers(k) ==
    IF k = 0 THEN <<>> ELSE Answers(k - 1) \o Val(chatLog[k].result)

\* C7: empty-match skip.  A retrieve call fails only if query or chat failed;
\* when it returns, chat was called once for each query result with a match,
\* in input order, with that result's query, and none for a result without;
\* the output is the chat results of those calls, one after the other.
C7_EmptyMatchSkip ==
    /\ rPc = "failed" => (qPc = "failed" \/ cPc = "failed")
    /\ rPc = "returned" =>
          /\ Len(chatLog) = Cardinality(Matched)
          /\ \A k \in 1..Len(chatLog) :
                chatLog[k].messages[5].content = Val(qResult)[MatchedIndex(k)].query
          /\ Val(rResult) = Answers(Len(chatLog))

\* C7 witness: retrieve has returned for two query results, the first
\* without a match and the second with one.
C7_Witness ==
    /\ rPc = "returned"
    /\ Len(Val(qResult)) = 2
    /\ Matched = {2}
    /\ Val(rResult) # <<>>

\* The text of the match with the highest score.
TopScoringText(results) ==
    (CHOOSE m \in {results[i] : i \in 1..Len(results)} :
        \A i \in 1..Len(results) : results[i].score <= m.score).text

\* C8: top-1 selection.  The text retrieve passes to chat for a query result
\* with a match is that of the highest-scoring match of that result; for
\* matches scored 90 and 95, in that order, it is the text of the second.
C8_TopScoring ==
    rPc = "chat" =>
        chatLog[Len(chatLog)].messages[4].content
            = TopScoringText(Val(qResult)[rIdx].results)

\* C11: failure propagation without partial results.  When the query step of
\* a retrieve call has failed, retrieve has failed, returns nothing and has
\* called chat for no query result.  When the chat call for a query result
\* has failed, retrieve has failed and returns nothing, the chat results of
\* the earlier query results included; _chat was invoked once for each query
\* result with a match up to the failed one (the failed call was made once)
\* and for none after it.
C11_FailurePropagation ==
    /\ qPc = "failed" =>
          /\ rPc = "failed"
          /\ rResult = Null
          /\ chatLog = <<>>
    /\ cPc = "failed" =>
          /\ rPc = "failed"
          /\ rResult = Null
          /\ Len(chatLog) = Cardinality({i \in Matched : i <= rIdx})
          /\ chatLog[Len(chatLog)].result = Null
          /\ \A k \in 1..(Len(chatLog) - 1) : chatLog[k].result # Null

\* C11 witness: the chat call for the second query result has failed after
\* the one for the first had returned its results.
C11_Witness ==
    /\ rPc = "failed"
    /\ cPc = "failed"
    /\ rIdx = 2
    /\ chat_results # <<>>
    /\ rResult = Null

\* The chat calls the current retrieve call has made so far, in order.
ChatCallsMade == SelectSeq(callLog, LAMBDA c : c.fn = "chat")

\* C14: retrieve call sequence.  Once query has returned to a retrieve call,
\* the chat calls retrieve has made are one for each query result with a
\* match that its loop has reached, in input order and none twice; each was
\* given exactly two messages, the first with role user and the text
\* retrieved from that result, the second with role user and that result's
\* query string; a chat call is made only when every earlier one has
\* returned; when retrieve returns, there are as many chat calls as query
\* results with a match.
C14_RetrieveCallSequence ==
    rPc \in {"loop", "chat", "returned"} =>
        /\ Len(ChatCallsMade) =
              Cardinality({i \in Matched : i < rIdx}) + (IF rPc = "chat" THEN 1 ELSE 0)
        /\ \A k \in 1..Len(ChatCallsMade) :
              LET given == ChatCallsMade[k].arg
                  query_result == Val(qResult)[MatchedIndex(k)]
              IN  /\ Len(given) = 2
                  /\ ToDict(given[1]) = [role |-> "user", content |-> query_result.results[1].text]
                  /\ ToDict(given[2]) = [role |-> "user", content |-> query_result.query]
        /\ Len(chatLog) = Len(ChatCallsMade)
        /\ \A k \in 1..Len(chatLog) :
              chatLog[k].result = Null => (k = Len(chatLog) /\ rPc = "chat")
        /\ rPc = "returned" => Len(ChatCallsMade) = Cardinality(Matched)

\* C14 witness: retrieve has returned after two chat calls, one for each of
\* two query results with different query strings.
C14_Witness ==
    /\ rPc = "returned"
    /\ Len(ChatCallsMade) = 2
    /\ Val(qResult)[1].query # Val(qResult)[2].query

(***************************************************************************)
(* Claims about the four operations, under SpecOrchestrator.               *)
(***************************************************************************)
\* The positions in the log of the calls of one name.
CallsOf(fn) == {i \in 1..Len(callLog) : callLog[i].fn = fn}

\* C15: single batched calls.  A query call has made exactly one call of the
\* embedding provider, with the texts of all its queries in input order, and
\* after it exactly one call of _query (none when the provider raised); a
\* retrieve call has made exactly one call of query, with the whole batch,
\* before any call of chat; an upsert call has made at most one call of the
\* chunker and at most one of _upsert, and exactly one of each, with all its
\* documents, when it has returned.
C15_SingleBatchedCalls ==
    /\ qPc # "idle" =>
          /\ Cardinality(CallsOf("get_embeddings")) = 1
          /\ \A i \in CallsOf("get_embeddings") :
                callLog[i].arg = [k \in 1..Len(qQueries) |-> qQueries[k].query]
          /\ Cardinality(CallsOf("_query")) = (IF qEmbeddings # Null THEN 1 ELSE 0)
          /\ \A i \in CallsOf("get_embeddings") : \A j \in CallsOf("_query") : i < j
    /\ rPc # "idle" =>
          /\ CallsOf("query") = {1}
          /\ callLog[1].arg = qQueries
          /\ \A j \in CallsOf("chat") : \A i \in CallsOf("_query") : i < j
    /\ upPc # "idle" =>
          /\ Cardinality(CallsOf("get_document_chunks")) <= 1
          /\ Cardinality(CallsOf("_upsert")) <= 1
          /\ \A i \in CallsOf("get_document_chunks") : callLog[i].arg = upDocs
          /\ upPc = "returned" =>
                /\ Cardinality(CallsOf("get_document_chunks")) = 1
                /\ Cardinality(CallsOf("_upsert")) = 1

\* C15 witness: a retrieve call for two queries with different texts has
\* returned after a chat call.
C15_Witness ==
    /\ rPc = "returned"
    /\ Len(qQueries) = 2
    /\ qQueries[1].query # qQueries[2].query
    /\ CallsOf("chat") # {}

\* C18: termination, under FairCall.  An upsert, query, chat or retrieve
\* call that has started is over at some later time, with a result or a
\* failure, and so is a query or chat call that retrieve makes; a
\* retrieve call makes at most one chat call for each of its queries and an
\* upsert call at most one delete call for each of its documents.
C18_Termination ==
    /\ (upPc \in {"gather", "_upsert"}) ~> (upPc \in {"returned", "failed"})
    /\ (qPc = "_query") ~> (qPc \in {"returned", "failed"})
    /\ (cPc = "_chat") ~> (cPc \in {"returned", "failed"})
    /\ (rPc \in {"query", "loop", "chat"}) ~> (rPc \in {"returned", "failed"})
    /\ [](Cardinality(CallsOf("chat")) <= Len(qQueries))
    /\ [](Cardinality(CallsOf("delete")) <= Len(upDocs))

\* C18 witness: a retrieve call has returned after it passed a query result
\* without a match and made a chat call for another.
C18_Witness ==
    /\ rPc = "returned"
    /\ Len(Val(qResult)) = 2
    /\ Cardinality(Matched) = 1
    /\ Cardinality(CallsOf("chat")) = 1

(***************************************************************************)
(* Claims about the read operations, under SpecRead.                       *)
(***************************************************************************)
\* C17: read-only operations.  Whatever query, chat and retrieve calls were
\* made, returned or failed, none has called delete or _upsert, and the store
\* holds the chunks it held before them.
C17_ReadOnly ==
    /\ \A i \in 1..Len(callLog) : callLog[i].fn \notin {"delete", "_upsert", "upsert"}
    /\ store = StoredChunks

\* C17 witness: a retrieve call has returned chat results on a store that
\* holds chunks.
C17_Witness ==
    /\ rPc = "returned"
    /\ chat_results # <<>>
    /\ CallsOf("_query") # {}
    /\ store # EmptyBag

(***************************************************************************)
(* Claims about delete requests, under SpecDelete.                         *)
(***************************************************************************)
\* The body leaves the field out or gives None for it.
Unset(body, field) == field \notin DOMAIN body \/ body[field] = Null

====
